---- MODULE Spec2Model ----
(***************************************************************************)
(* Model of the Markjar editor (src/src/markjar.ts): an editing surface    *)
(* whose child nodes are rendered lines, a set of changed lines, and an    *)
(* idle callback that re-highlights the changed lines and restores the     *)
(* caret.  Texts are sequences of one-character strings.  A node's         *)
(* identity is its place: a child node of the editor is known by its       *)
(* position, it carries `dirty` (it is a member of the Set #changedLines)   *)
(* and, in the result of an operation, `fresh` (the operation created it);  *)
(* the members of the Set that have left the editor are counted in         *)
(* `detached`.                                                             *)
(***************************************************************************)
EXTENDS Integers, Sequences, FiniteSets, TLC

VARIABLES
    children,      \* editor.childNodes: the sequence of the editor's child nodes
    detached,      \* how many nodes of #changedLines are no longer in the editor
    outer,         \* whether the editor itself, a <div>, is in #changedLines
    sel,           \* window.getSelection(): the caret, or no range
    idle,          \* the host's list of pending idle callbacks (handles)
    id,            \* makeIdle's `id`: the handle of the last request (0: undefined)
    sinceArm,      \* time elapsed since the pending callback was requested
    sinceFirst,    \* time elapsed since the first request after the last firing
    last           \* the last operation and the error it threw

vars == <<children, detached, outer, sel, idle, id, sinceArm, sinceFirst, last>>

\* ---------------------------------------------------------------- bounds

\* longest text of one line the host may type
MaxLen == 2
\* most characters the host may type into the span.mj-cursor of a line
MaxInAnchor == 1
\* most lines in a text given to setText
MaxLines == 2
\* most nodes the Set of changed lines may hold
MaxDirty == 2
\* most bare text nodes the host may leave directly under the editor
MaxBare == 1
\* the clock stops counting here
MaxTime == 200
\* the clock's step
TickStep == 50

\* the `timeout` handed to makeIdle
IdleTimeout == 100

\* ----------------------------------------------------------------- texts

NL == "\n"
Chars == {"#", " ", "a"}

\* the characters the user types
Typed == {" "}
Digits == {"0", "1", "2", "3", "4", "5", "6", "7", "8", "9"}
BulletChars == {"*", "+", "-"}

Min(S) == CHOOSE x \in S : \A y \in S : x <= y
Max(S) == CHOOSE x \in S : \A y \in S : x >= y

\* String.prototype.split('\n')
RECURSIVE split(_)
split(text) ==
    IF \A k \in 1..Len(text) : text[k] # NL
    THEN <<text>>
    ELSE LET k == Min({m \in 1..Len(text) : text[m] = NL})
         IN  <<SubSeq(text, 1, k - 1)>> \o split(SubSeq(text, k + 1, Len(text)))

\* Array.prototype.join('\n')
RECURSIVE join(_)
join(lines) ==
    IF Len(lines) = 0 THEN <<>>
    ELSE IF Len(lines) = 1 THEN lines[1]
    ELSE lines[1] \o <<NL>> \o join(Tail(lines))

\* ------------------------------------------------------------- tokenizer

\* number of leading characters of t, from position p on, that are in S
RECURSIVE runLength(_, _, _)
runLength(t, p, S) ==
    IF p <= Len(t) /\ t[p] \in S THEN 1 + runLength(t, p + 1, S) ELSE 0

\* [^\n]+ : the characters from position p up to the next line separator
RECURSIVE lineRest(_, _)
lineRest(t, p) ==
    IF p <= Len(t) /\ t[p] # NL THEN 1 + lineRest(t, p + 1) ELSE 0

\* the regular expressions' ^ (hljs compiles them with the m flag)
atLineStart(t, p) == p = 1 \/ t[p - 1] = NL

charAt(t, p) == IF p >= 1 /\ p <= Len(t) THEN t[p] ELSE "EOF"

\* the rule table of PromptMark, in the order of `contains`
PromptMark == <<"H1_HASH", "H2_HASH", "H3_HASH", "HASH", "HEADER_TEXT",
                "OL_LIST_D1", "OL_LIST_DX", "UL_LIST", "BULLET">>

\* the rules whose className has mj-block
blockRules == {"H1_HASH", "H2_HASH", "H3_HASH", "OL_LIST_D1", "OL_LIST_DX", "UL_LIST"}

\* (?<=^#+ ): the text before p is a line start, one or more #, one space
headerLookbehind(t, p) ==
    \E q \in 1..(p - 1) :
        /\ atLineStart(t, q)
        /\ q <= p - 2
        /\ \A m \in q..(p - 2) : t[m] = "#"
        /\ t[p - 1] = " "

\* length of the match of rule r at position p of t (0: no match)
matchLength(r, t, p) ==
    LET hashes == runLength(t, p, {"#"})
        digits == runLength(t, p, Digits)
    IN
    CASE r = "H1_HASH" ->
           IF atLineStart(t, p) /\ charAt(t, p) = "#" /\ charAt(t, p + 1) = " "
           THEN 2 ELSE 0
      [] r = "H2_HASH" ->
           IF atLineStart(t, p) /\ charAt(t, p) = "#" /\ charAt(t, p + 1) = "#"
              /\ charAt(t, p + 2) = " "
           THEN 3 ELSE 0
      [] r = "H3_HASH" ->
           IF atLineStart(t, p) /\ charAt(t, p) = "#" /\ charAt(t, p + 1) = "#"
              /\ charAt(t, p + 2) = "#" /\ charAt(t, p + 3) = " "
           THEN 4 ELSE 0
      [] r = "HASH" ->
           IF atLineStart(t, p) THEN hashes ELSE 0
      [] r = "HEADER_TEXT" ->
           IF headerLookbehind(t, p) THEN lineRest(t, p) ELSE 0
      [] r = "OL_LIST_D1" ->
           IF atLineStart(t, p) /\ charAt(t, p) \in Digits /\ charAt(t, p + 1) = "."
              /\ charAt(t, p + 2) = " "
           THEN 3 ELSE 0
      [] r = "OL_LIST_DX" ->
           IF atLineStart(t, p) /\ digits >= 1 /\ charAt(t, p + digits) = "."
              /\ charAt(t, p + digits + 1) = " "
           THEN digits + 2 ELSE 0
      [] r = "UL_LIST" ->
           IF atLineStart(t, p) /\ charAt(t, p) \in BulletChars /\ charAt(t, p + 1) = " "
           THEN 2 ELSE 0
      [] r = "BULLET" ->
           IF atLineStart(t, p) /\ charAt(t, p) \in BulletChars THEN 1
           ELSE IF atLineStart(t, p) /\ digits >= 1 /\ charAt(t, p + digits) = "."
           THEN digits + 1 ELSE 0

\* a leaf of a rendered line: a text node (cls "text"), a <span> holding one
\* text node (cls: the rule that matched), the <br> of an empty line, or the
\* <span class="mj-cursor">
Leaf(cls, text) == [cls |-> cls, text |-> text]

\* hljs.highlight(text, {language: 'promptmark'}).value, parsed as innerHTML:
\* the leftmost match wins, at one position the first rule of the table wins,
\* what no rule matches is plain text
RECURSIVE highlightFrom(_, _)
highlightFrom(t, p) ==
    IF p > Len(t) THEN <<>>
    ELSE LET hits == {q \in p..Len(t) :
                        \E k \in 1..Len(PromptMark) : matchLength(PromptMark[k], t, q) > 0}
         IN  IF hits = {}
             THEN <<Leaf("text", SubSeq(t, p, Len(t)))>>
             ELSE LET q == Min(hits)
                      k == Min({j \in 1..Len(PromptMark) :
                                  matchLength(PromptMark[j], t, q) > 0})
                      n == matchLength(PromptMark[k], t, q)
                  IN  (IF q > p THEN <<Leaf("text", SubSeq(t, p, q - 1))>> ELSE <<>>)
                      \o <<Leaf(PromptMark[k], SubSeq(t, q, q + n - 1))>>
                      \o highlightFrom(t, q + n)

\* the texts of at most n characters
RECURSIVE textsUpTo(_)
textsUpTo(n) ==
    IF n = 0 THEN {<<>>}
    ELSE textsUpTo(n - 1)
         \cup {Append(t, c) : t \in {u \in textsUpTo(n - 1) : Len(u) = n - 1}, c \in Chars}

\* the highlighting of every text a line can hold, computed once
highlighted == [t \in textsUpTo(MaxLen + MaxInAnchor) |-> highlightFrom(t, 1)]

doHighlight(text) == highlighted[text]

\* ------------------------------------------------------------------- DOM

\* A child node of the editor: a <div> line (kind "div") with its leaves, a bare
\* <br> (kind "br", no leaves) or a bare text node (kind "text", one text leaf).
Node(kind, kids, dirty, fresh) ==
    [kind |-> kind, kids |-> kids, dirty |-> dirty, fresh |-> fresh]

BR == Leaf("br", <<>>)
CURSOR == Leaf("mj-cursor", <<>>)

RECURSIVE concat(_)
concat(kids) == IF kids = <<>> THEN <<>> ELSE Head(kids).text \o concat(Tail(kids))

\* Node.textContent
textContent(node) == concat(node.kids)

isElement(node) == node.kind # "text"

\* editor.children: the child nodes that are elements
editorChildren(ch) == SelectSeq(ch, isElement)

\* the positions, in editor.childNodes, of editor.children
RECURSIVE elementPositions(_, _)
elementPositions(ch, p) ==
    IF p > Len(ch) THEN <<>>
    ELSE (IF isElement(ch[p]) THEN <<p>> ELSE <<>>) \o elementPositions(ch, p + 1)

\* Array.prototype.indexOf.call(editor.children, the child node at position p)
indexOf(ch, p) ==
    IF isElement(ch[p]) THEN Len(editorChildren(SubSeq(ch, 1, p))) - 1 ELSE -1

\* the editor's tree and the changed lines outside it
Dom(ch, det) == [children |-> ch, detached |-> det]

\* a node that leaves the editor stays in the Set if it was in it
gone(node) == IF node.dirty THEN 1 ELSE 0

replaceChild(dom, newChild, p) ==
    Dom([dom.children EXCEPT ![p] = newChild], dom.detached + gone(dom.children[p]))

appendChild(dom, newChild) == Dom(Append(dom.children, newChild), dom.detached)

\* removeChild(editor.lastChild)
removeLastChild(dom) ==
    Dom(SubSeq(dom.children, 1, Len(dom.children) - 1),
        dom.detached + gone(dom.children[Len(dom.children)]))

\* the nodes created by earlier operations are no longer new
aged(ch) == [p \in 1..Len(ch) |-> [ch[p] EXCEPT !.fresh = FALSE]]

isFixedWidthBlock(leaf) == leaf.cls \in blockRules

shouldSetCursor(leaf) == leaf.cls = "mj-cursor"

createLine(text) ==
    Node("div", IF text # <<>> THEN doHighlight(text) ELSE <<BR>>, FALSE, TRUE)

updateLine(text) ==
    LET newLine == createLine(text)
    IN  IF newLine.kids # <<>> /\ isFixedWidthBlock(newLine.kids[Len(newLine.kids)])
        THEN [newLine EXCEPT !.kids = Append(@, CURSOR)]
        ELSE newLine

\* morphdom(line, newLine): the line keeps its identity when it is a <div> as
\* newLine is; a node of another name is replaced by a new element
morphdom(line, newLine) ==
    IF line.kind = newLine.kind
    THEN [newLine EXCEPT !.dirty = line.dirty, !.fresh = line.fresh]
    ELSE newLine

texts(ch) == [p \in 1..Len(ch) |-> textContent(ch[p])]

getText == join(texts(editorChildren(children)))

\* the for loop of #updateText without the comparison of the texts: every line
\* is rendered anew
RECURSIVE updateTextLoopAll(_, _, _)
updateTextLoopAll(dom, textLines, i) ==
    IF i > Len(textLines) THEN dom
    ELSE LET els == elementPositions(dom.children, 1)
             newLine == createLine(textLines[i])
         IN  updateTextLoopAll(IF i <= Len(els)
                               THEN replaceChild(dom, newLine, els[i])
                               ELSE appendChild(dom, newLine),
                               textLines, i + 1)

\* the for loop of #updateText, from index i (counted from 1) on
RECURSIVE updateTextLoop(_, _, _)
updateTextLoop(dom, textLines, i) ==
    IF i > Len(textLines) THEN dom
    ELSE LET els == elementPositions(dom.children, 1)
         IN  IF i <= Len(els) /\ textLines[i] = textContent(dom.children[els[i]])
             THEN updateTextLoop(dom, textLines, i + 1)
             ELSE LET newLine == createLine(textLines[i])
                  IN  updateTextLoop(IF i <= Len(els)
                                     THEN replaceChild(dom, newLine, els[i])
                                     ELSE appendChild(dom, newLine),
                                     textLines, i + 1)

\* the while loop of #updateText
RECURSIVE removeTrailing(_, _)
removeTrailing(dom, n) ==
    IF Len(editorChildren(dom.children)) > n
    THEN removeTrailing(removeLastChild(dom), n)
    ELSE dom

updateText(dom, text) ==
    LET textLines == split(text)
    IN  removeTrailing(updateTextLoop(dom, textLines, 1), Len(textLines))

\* ------------------------------------------------------------- selection

\* window.getSelection(): k is "null" (no Selection object), "norange"
\* (rangeCount = 0), or the container of a collapsed range: "document", "editor",
\* "line" (the child node at position p of the editor itself, at offset off) or
\* "leaf" (inside leaf j of the line at p: its text node at offset off, or the
\* empty mj-cursor span at offset 0)
Sel(k, p, j, off) == [k |-> k, p |-> p, j |-> j, off |-> off]

NoRange == Sel("norange", 0, 0, 0)
NoSelection == Sel("null", 0, 0, 0)
AtDocument == Sel("document", 0, 0, 0)
AtEditor == Sel("editor", 0, 0, 0)

\* #getLineElement(node), for the container of s: the position of the line
\* among the child nodes, 0 for null. From a node inside a child that is not a
\* <div>, closest('div') finds the editor, which is a <div>: -1
getLineElement(ch, s) ==
    CASE s.k = "editor" -> 0
      [] s.k = "document" -> 0
      [] s.k = "line" -> s.p
      [] s.k = "leaf" -> IF ch[s.p].kind = "div" THEN s.p ELSE -1
      [] OTHER -> 0

\* preRange.toString().length
preRangeLength(node, s) ==
    IF s.k = "leaf" THEN Len(concat(SubSeq(node.kids, 1, s.j - 1))) + s.off
    ELSE IF node.kind = "text" THEN s.off
    ELSE Len(concat(SubSeq(node.kids, 1, s.off)))

Throw(e) == [tag |-> "throw", err |-> e, line |-> 0, column |-> 0]
Null == [tag |-> "null", err |-> "none", line |-> 0, column |-> 0]
Pos(line, column) == [tag |-> "pos", err |-> "none", line |-> line, column |-> column]

\* #getCursorPos(): lines are counted from 0, -1 is indexOf's "not found"
getCursorPos(ch, s) ==
    IF s.k = "null" THEN Null
    ELSE IF s.k = "norange" THEN Throw("IndexSizeError")
    ELSE LET element == getLineElement(ch, s)
         IN  IF element = 0 THEN Null
             ELSE IF element = -1
             THEN Pos(-1, Len(concat([q \in 1..(s.p - 1) |-> Leaf("text", textContent(ch[q]))]))
                            + preRangeLength(ch[s.p], s))
             ELSE Pos(indexOf(ch, element), preRangeLength(ch[element], s))

\* the text length before leaf j of a line
offsetBefore(node, j) == Len(concat(SubSeq(node.kids, 1, j - 1)))

\* a leaf holds a text node
hasTextNode(leaf) == leaf.cls # "br" /\ leaf.text # <<>>

\* moveTo(node) of moveCursorToColumn: node is the text node of leaf j
moveTo(element, j, column) ==
    IF /\ element.kids[j].cls # "text"
       /\ j < Len(element.kids)
       /\ shouldSetCursor(element.kids[j + 1])
    THEN Sel("leaf", 0, j + 1, 0)
    ELSE Sel("leaf", 0, j, column - offsetBefore(element, j))

\* moveCursorToColumn without the test for an empty line: the walk only
moveCursorToColumnWalk(element, column) ==
    LET found == {j \in 1..Len(element.kids) :
                    /\ hasTextNode(element.kids[j])
                    /\ offsetBefore(element, j) + Len(element.kids[j].text) >= column}
    IN  IF found = {} THEN AtDocument ELSE moveTo(element, Min(found), column)

\* moveCursorToColumn(element, column, range): where the range ends up, in the
\* element; a range that is never set stays where document.createRange() put it
moveCursorToColumn(element, column) ==
    IF Len(textContent(element)) = 0
    THEN Sel("line", 0, 0, 0)
    ELSE LET found == {j \in 1..Len(element.kids) :
                         /\ hasTextNode(element.kids[j])
                         /\ offsetBefore(element, j) + Len(element.kids[j].text) >= column}
         IN  IF found = {} THEN AtDocument ELSE moveTo(element, Min(found), column)

\* #setCursorPos(pos): the selection afterwards, or the error thrown
setCursorPos(ch, s, pos) ==
    IF pos.tag = "null" \/ s.k = "null" THEN [err |-> "none", sel |-> s]
    ELSE LET els == elementPositions(ch, 1)
             validLine == Min({Max({pos.line, 0}), Len(els) - 1})
         IN  IF validLine < 0
             THEN [err |-> "TypeError", sel |-> s]
             ELSE LET p == els[validLine + 1]
                      range == moveCursorToColumn(ch[p], pos.column)
                  IN  [err |-> "none",
                       sel |-> IF range.k = "document" THEN range
                               ELSE [range EXCEPT !.p = p]]

\* no NodePos: #calculateNodePos returns null
NoNodePos == Sel("null", 0, 0, 0)

\* #calculateNodePos(pos) of the class that keeps a SelectionRange: lines are
\* counted in editor.childNodes and are not clamped
calculateNodePos(ch, pos) ==
    IF pos.line < 0 \/ pos.line >= Len(ch) THEN NoNodePos
    ELSE LET p == pos.line + 1
             lineNode == ch[p]
         IN  IF Len(textContent(lineNode)) = 0 THEN Sel("line", p, 0, 0)
             ELSE IF lineNode.kind = "text"
             THEN (IF Len(textContent(lineNode)) >= pos.column
                   THEN Sel("line", p, 0, pos.column)
                   ELSE NoNodePos)
             ELSE LET found == {j \in 1..Len(lineNode.kids) :
                                  /\ hasTextNode(lineNode.kids[j])
                                  /\ offsetBefore(lineNode, j) + Len(lineNode.kids[j].text)
                                       >= pos.column}
                  IN  IF found = {} THEN NoNodePos
                      ELSE [moveTo(lineNode, Min(found), pos.column) EXCEPT !.p = p]

\* ------------------------------------------------------------- scheduler

\* requestIdleCallback(): a handle no pending callback has
requestIdleCallback(pending) == Min((1..(Cardinality(pending) + 1)) \ pending)

\* cancelIdleCallback(handle)
cancelIdleCallback(pending, handle) == pending \ {handle}

\* makeIdle without cancelIdleCallback(id): every request stays pending
makeIdleNoCancel(pending, handle) ==
    LET new == requestIdleCallback(pending)
    IN  [idle |-> pending \cup {new}, id |-> new]

\* the function makeIdle returns: cancel the last request, make a new one;
\* the result is the host's list of pending callbacks and the new `id`
makeIdle(pending, handle) ==
    LET kept == cancelIdleCallback(pending, handle)
        new == requestIdleCallback(kept)
    IN  [idle |-> kept \cup {new}, id |-> new]

\* ------------------------------------------------------ reconciliation

\* #changedLines, as the places of its members: the positions of the changed
\* lines in the editor, and the changed lines outside it
changedLines(dom) ==
    [attached |-> {p \in 1..Len(dom.children) : dom.children[p].dirty},
     detached |-> dom.detached]

\* the size of the Set
changedLinesSize(dom) ==
    Cardinality(changedLines(dom).attached) + changedLines(dom).detached

\* the callback of #changedLines.forEach, for one line: what the line is afterwards
patchChangedLine(line, attached) ==
    IF ~attached THEN line
    ELSE morphdom(line, updateLine(textContent(line)))

\* #changedLines.clear()
clear(ch) == [p \in 1..Len(ch) |-> [ch[p] EXCEPT !.dirty = FALSE]]

\* the selector 'br' in place of ':scope > br': the <br> of an empty line too
isAnyBr(node) == node.kind = "br" \/ (node.kind = "div" /\ node.kids = <<BR>>)

\* a <br> that is a child of the editor itself
isBareBr(node) == node.kind = "br"

\* the pass without the replacement of the bare <br> elements
keepBareBrs(ch) == ch

\* editor.querySelectorAll(':scope > br').forEach(br => replaceChild(createLine(''), br))
replaceBareBrs(ch) ==
    [p \in 1..Len(ch) |-> IF isBareBr(ch[p]) THEN createLine(<<>>) ELSE ch[p]]

\* the callback of #requestForUpdate: the state it leaves and the error it throws
requestForUpdate(dom, s) ==
    LET ch == dom.children
        pos == getCursorPos(ch, s)
    IN  IF pos.tag = "throw"
        THEN [children |-> ch, detached |-> dom.detached, sel |-> s, err |-> pos.err]
        ELSE LET patched == [p \in 1..Len(ch) |->
                               IF ch[p].dirty THEN patchChangedLine(ch[p], TRUE) ELSE ch[p]]
                 normal == replaceBareBrs(clear(patched))
                 restored == setCursorPos(normal, s, pos)
             IN  [children |-> normal, detached |-> 0, sel |-> restored.sel,
                  err |-> restored.err]

\* ------------------------------------------------------------------ host

Last(op, err) == [op |-> op, err |-> err]

\* the carets the host can put into the child node at position p
caretsIn(node, p) ==
    IF node.kind = "text"
    THEN {Sel("line", p, 0, off) : off \in 0..Len(textContent(node))}
    ELSE (IF textContent(node) = <<>> THEN {Sel("line", p, 0, 0)} ELSE {})
         \cup UNION {{Sel("leaf", p, j, off) : off \in 0..Len(node.kids[j].text)} :
                       j \in {m \in 1..Len(node.kids) : hasTextNode(node.kids[m])}}
         \cup {Sel("leaf", p, j, 0) :
                 j \in {m \in 1..Len(node.kids) : shouldSetCursor(node.kids[m])}}

carets(ch) == {AtEditor} \cup UNION {caretsIn(ch[p], p) : p \in 1..Len(ch)}

validCaret(ch, s) ==
    \/ s.k \in {"null", "norange", "document"}
    \/ s \in carets(ch)

insertAt(text, off, c) == SubSeq(text, 1, off) \o <<c>> \o SubSeq(text, off + 1, Len(text))

bareTexts(ch) == Len(SelectSeq(ch, LAMBDA n : n.kind = "text"))

\* what the host does to the tree for an insertText of character c at the caret
\* s (the default action of beforeinput); ok is whether the bounds allow it
hostInsertText(ch, s, c) ==
    LET p == s.p
        node == ch[p]
        bare == Node("text", <<Leaf("text", <<c>>)>>, FALSE, TRUE)
        no == [ok |-> FALSE, children |-> ch, sel |-> s]
    IN  CASE s.k = "editor" ->
               IF bareTexts(ch) < MaxBare /\ \A q \in 1..Len(ch) : ch[q].kind # "div"
               THEN [ok |-> TRUE, children |-> <<bare>> \o ch, sel |-> Sel("line", 1, 0, 1)]
               ELSE no
          [] s.k = "line" /\ node.kind = "br" ->
               IF bareTexts(ch) < MaxBare
               THEN [ok |-> TRUE,
                     children |-> SubSeq(ch, 1, p - 1) \o <<bare>> \o SubSeq(ch, p, Len(ch)),
                     sel |-> Sel("line", p, 0, 1)]
               ELSE no
          [] s.k = "line" /\ node.kind = "text" ->
               IF Len(textContent(node)) < MaxLen
               THEN [ok |-> TRUE,
                     children |-> [ch EXCEPT ![p].kids[1].text = insertAt(@, s.off, c)],
                     sel |-> Sel("line", p, 0, s.off + 1)]
               ELSE no
          [] s.k = "line" /\ node.kind = "div" ->
               IF Len(textContent(node)) < MaxLen
               THEN [ok |-> TRUE,
                     children |-> [ch EXCEPT ![p].kids =
                                     <<Leaf("text", <<c>>)>>
                                     \o SelectSeq(@, LAMBDA l : l.cls # "br")],
                     sel |-> Sel("leaf", p, 1, 1)]
               ELSE no
          [] s.k = "leaf" ->
               IF Len(textContent(node)) <
                    (IF shouldSetCursor(node.kids[s.j]) THEN MaxLen + MaxInAnchor ELSE MaxLen)
               THEN [ok |-> TRUE,
                     children |-> [ch EXCEPT ![p].kids[s.j].text = insertAt(@, s.off, c)],
                     sel |-> Sel("leaf", p, s.j, s.off + 1)]
               ELSE no
          [] OTHER -> no

\* #onBeforeInput(event), for an event whose one target range starts at `target`
onBeforeInput(ch, pending, handle, target) ==
    LET line == getLineElement(ch, target)
        armed == makeIdle(pending, handle)
    IN  IF line # 0
        THEN [children |-> IF line = -1 THEN ch ELSE [ch EXCEPT ![line].dirty = TRUE],
              idle |-> armed.idle, id |-> armed.id, line |-> line]
        ELSE [children |-> ch, idle |-> pending, id |-> handle, line |-> 0]

\* #onBeforeInput(event) for the array event.getTargetRanges() returns, given as
\* the start containers of its ranges: console.assert only logs, and ranges[0]
\* of an empty array is undefined, whose startContainer cannot be read
dispatchBeforeInput(ch, pending, handle, ranges) ==
    IF ranges = <<>>
    THEN [err |-> "TypeError", children |-> ch, idle |-> pending, id |-> handle, line |-> 0]
    ELSE LET h == onBeforeInput(ch, pending, handle, ranges[1])
         IN  [err |-> "none", children |-> h.children, idle |-> h.idle, id |-> h.id,
              line |-> h.line]

\* the scheduler, the clocks and the editor's place in the Set after an edit
\* notification handled as h
Notified(h) ==
    /\ outer' = (outer \/ h.line = -1)
    /\ idle' = h.idle
    /\ id' = h.id
    /\ sinceArm' = IF h.line # 0 THEN 0 ELSE sinceArm
    /\ sinceFirst' = IF h.line # 0 /\ idle = {} THEN 0 ELSE sinceFirst

\* ---------------------------------------------------------------- state

Init ==
    /\ children = <<Node("div", <<>>, FALSE, FALSE)>>
    /\ detached = 0
    /\ outer = FALSE
    /\ sel = NoRange
    /\ idle = {}
    /\ id = 0
    /\ sinceArm = 0
    /\ sinceFirst = 0
    /\ last = Last("new", "none")

\* the line texts setText is called with; the empty text is join(<<>>)
LineTexts == {<<"#">>, <<"#", " ">>}

\* the arrays of at most n line texts
RECURSIVE lineArrays(_)
lineArrays(n) ==
    IF n = 0 THEN {<<>>}
    ELSE lineArrays(n - 1)
         \cup {<<t>> \o L : t \in LineTexts, L \in {M \in lineArrays(n - 1) : Len(M) = n - 1}}

\* the arrays L of line texts: setText is called with join(L)
LineArrays == lineArrays(MaxLines)

\* setText(text)
SetText(text) ==
    LET pos == getCursorPos(children, sel)
    IN  IF pos.tag = "throw"
        THEN /\ last' = Last("setText", pos.err)
             /\ UNCHANGED <<children, detached, outer, sel, idle, id, sinceArm, sinceFirst>>
        ELSE LET dom == updateText(Dom(children, detached), text)
                 restored == setCursorPos(dom.children, sel, pos)
             IN  /\ children' = aged(dom.children)
                 /\ detached' = dom.detached
                 /\ sel' = restored.sel
                 /\ last' = Last("setText", restored.err)
                 /\ UNCHANGED <<outer, idle, id, sinceArm, sinceFirst>>

\* the user puts the caret somewhere, or the selection loses its range
HostSelect(s) ==
    /\ s # sel
    /\ sel' = s
    /\ last' = Last("select", "none")
    /\ UNCHANGED <<children, detached, outer, idle, id, sinceArm, sinceFirst>>

\* the user types character c at the caret: beforeinput, then the insertion
HostType(c) ==
    /\ sel.k \in {"editor", "line", "leaf"}
    /\ LET h == onBeforeInput(children, idle, id, sel)
           typed == hostInsertText(h.children, sel, c)
       IN  /\ typed.ok
           /\ changedLinesSize(Dom(h.children, detached)) <= MaxDirty
           /\ Notified(h)
           /\ children' = aged(typed.children)
           /\ sel' = typed.sel
           /\ last' = Last("type", "none")
           /\ UNCHANGED detached

\* the user deletes everything: beforeinput for a range that starts in the first
\* child node (or at the editor itself), then the host leaves nothing or one <br>
HostDeleteAll(atEditor, leaveBr) ==
    /\ children # <<>>
    /\ sel.k \in {"editor", "line", "leaf"}
    /\ LET target == IF atEditor THEN AtEditor
                     ELSE IF children[1].kind = "span" THEN Sel("leaf", 1, 1, 0)
                     ELSE Sel("line", 1, 0, 0)
           h == onBeforeInput(children, idle, id, target)
       IN  /\ changedLinesSize(Dom(h.children, detached)) <= MaxDirty
           /\ Notified(h)
           /\ children' = IF leaveBr THEN <<Node("br", <<>>, FALSE, FALSE)>> ELSE <<>>
           /\ detached' = detached + Cardinality({p \in 1..Len(h.children) : h.children[p].dirty})
           /\ sel' = AtEditor
           /\ last' = Last("deleteAll", "none")

\* the user pastes character c as rich text into an editor without lines: the
\* beforeinput event's range is at the editor, then the host inserts the
\* character in an inline element directly under the editor, the caret after it
HostPaste(c) ==
    /\ sel.k = "editor"
    /\ \A q \in 1..Len(children) : children[q].kind \notin {"div", "span"}
    /\ LET h == onBeforeInput(children, idle, id, sel)
       IN  /\ Notified(h)
           /\ children' = <<Node("span", <<Leaf("text", <<c>>)>>, FALSE, FALSE)>> \o h.children
           /\ sel' = Sel("leaf", 1, 1, 1)
           /\ last' = Last("paste", "none")
           /\ UNCHANGED detached

\* the numbers of target ranges, other than one, a beforeinput event reports
RangeCounts == {0, 2}

\* a beforeinput event that reports n target ranges, each starting where the
\* selection starts, and whose default action leaves the tree as it is
HostNotify(n) ==
    /\ sel.k \in {"editor", "line", "leaf"}
    /\ LET h == dispatchBeforeInput(children, idle, id, [i \in 1..n |-> sel])
       IN  /\ changedLinesSize(Dom(h.children, detached)) <= MaxDirty
           /\ Notified(h)
           /\ children' = h.children
           /\ last' = Last("notify", h.err)
           /\ UNCHANGED <<detached, sel>>

\* the host runs the pending idle callback; #changedLines.clear() is reached
\* unless the snapshot of the caret throws
Fire ==
    /\ idle # {}
    /\ \E h \in idle :
         LET done == requestForUpdate(Dom(children, detached), sel)
         IN  /\ idle' = idle \ {h}
             /\ children' = aged(done.children)
             /\ detached' = done.detached
             /\ outer' = (outer /\ getCursorPos(children, sel).tag = "throw")
             /\ sel' = done.sel
             /\ last' = Last("fire", done.err)
             /\ sinceArm' = 0
             /\ sinceFirst' = 0
             /\ UNCHANGED id

\* time passes; a pending idle callback runs no later than its timeout
Tick ==
    /\ idle # {}
    /\ sinceArm + TickStep <= IdleTimeout
    /\ sinceFirst + TickStep <= MaxTime
    /\ sinceArm' = sinceArm + TickStep
    /\ sinceFirst' = sinceFirst + TickStep
    /\ last' = Last("tick", "none")
    /\ UNCHANGED <<children, detached, outer, sel, idle, id>>

Next ==
    \/ \E L \in LineArrays : SetText(join(L))
    \/ \E s \in carets(children) \cup {NoRange} : HostSelect(s)
    \/ \E c \in Typed : HostType(c)
    \/ \E atEditor \in BOOLEAN, leaveBr \in BOOLEAN : HostDeleteAll(atEditor, leaveBr)
    \/ Fire

Spec == Init /\ [][Next]_vars

\* the editor with the clock: the user's edits, the idle callback and time
NextTimed ==
    \/ \E s \in carets(children) \cup {NoRange} : HostSelect(s)
    \/ \E c \in Typed : HostType(c)
    \/ \E atEditor \in BOOLEAN, leaveBr \in BOOLEAN : HostDeleteAll(atEditor, leaveBr)
    \/ Fire
    \/ Tick

SpecTimed == Init /\ [][NextTimed]_vars

\* the editor with beforeinput events of every number of target ranges
NextNotify ==
    \/ \E s \in carets(children) \cup {NoRange} : HostSelect(s)
    \/ \E c \in Typed : HostType(c)
    \/ \E atEditor \in BOOLEAN, leaveBr \in BOOLEAN : HostDeleteAll(atEditor, leaveBr)
    \/ \E n \in RangeCounts : HostNotify(n)
    \/ Fire

SpecNotify == Init /\ [][NextNotify]_vars

\* the editor with rich text pasted into it
NextPaste ==
    \/ \E s \in carets(children) \cup {NoRange} : HostSelect(s)
    \/ \E c \in Typed : HostType(c)
    \/ \E c \in Typed : HostPaste(c)
    \/ \E atEditor \in BOOLEAN, leaveBr \in BOOLEAN : HostDeleteAll(atEditor, leaveBr)
    \/ Fire

SpecPaste == Init /\ [][NextPaste]_vars

\* ---------------------------------------------------------------- claims

\* C1: round trip. From every reachable state and for every array L of line
\* texts, setText(join(L)) makes getText() return join(L) and leaves exactly
\* Len(L) rendered lines.
C1_RoundTrip ==
    [][\A L \in LineArrays :
         SetText(join(L)) =>
           /\ getText' = join(L)
           /\ Len(editorChildren(children')) = Len(L)]_vars

\* setText has thrown at getRangeAt(0) and the text is not the one it was given
C1_SetTextThrew ==
    /\ last = Last("setText", "IndexSizeError")
    /\ getText \notin {join(L) : L \in LineArrays \ {<<>>}}

\* C2: coalescing. The pass that runs after a burst of edit notifications is
\* the only one (none stays pending), it patches every line the edits changed
\* and it leaves the Set of changed lines empty.
C2_Coalescing ==
    [][Fire =>
         /\ idle' = {}
         /\ changedLinesSize(Dom(children', detached')) = 0
         /\ \A p \in 1..Len(children) :
              children[p].dirty =>
                children'[p].kids = updateLine(textContent(children[p])).kids]_vars

\* the pass has run and thrown, no pass is pending, and changed lines are left
C2_PassLeftChangedLines ==
    /\ last = Last("fire", "IndexSizeError")
    /\ idle = {}
    /\ changedLines(Dom(children, detached)).attached # {}

\* C3: bounded staleness. While a pass is pending, no more than the timeout has
\* passed since the first edit notification it is pending for.
C3_BoundedStaleness == idle # {} => sinceFirst <= IdleTimeout

\* a pass is pending for longer than the timeout, after being requested again
C3_StaleBeyondTimeout ==
    /\ idle # {}
    /\ sinceFirst > IdleTimeout
    /\ sinceArm <= IdleTimeout
    /\ changedLines(Dom(children, detached)).attached # {}

\* C4: caret preservation. A pass that starts with the caret at line i, column c
\* (0 <= c <= the length of line i) and keeps the number of lines ends with the
\* caret at line i, column c.
C4_CaretPreserved ==
    [][Fire =>
         LET pos == getCursorPos(children, sel)
         IN  (/\ pos.tag = "pos"
              /\ pos.line >= 0
              /\ pos.column <= Len(textContent(editorChildren(children)[pos.line + 1]))
              /\ Len(editorChildren(children')) = Len(editorChildren(children)))
             => getCursorPos(children', sel') = pos]_vars

\* a pass has put the caret into the mj-cursor element of a line
C4_CaretAtAnchor ==
    /\ last = Last("fire", "none")
    /\ sel.k = "leaf"
    /\ shouldSetCursor(children[sel.p].kids[sel.j])

\* C5: clamping. setText called with the caret on a line at or past the number
\* of lines of the new text puts the caret on the last line of the new text, at
\* a column no greater than the length of that line.
C5_Clamping ==
    [][\A L \in LineArrays :
         LET pos == getCursorPos(children, sel)
             after == getCursorPos(children', sel')
             lines == editorChildren(children')
         IN  (/\ SetText(join(L))
              /\ pos.tag = "pos"
              /\ pos.line >= Len(split(join(L))))
             => /\ after.tag = "pos"
                /\ after.line = Len(lines) - 1
                /\ after.column <= Len(textContent(lines[Len(lines)]))]_vars

\* setText has run without an error and the range is where createRange() put it
C5_CaretAtDocument ==
    /\ last = Last("setText", "none")
    /\ sel = AtDocument

\* C6: anchor. For every rendered line whose text is one fixed-width block and
\* nothing else, the caret position at the column that is the length of the
\* line is offset 0 of the line's mj-cursor element.
C6_AnchorBehaviour ==
    \A p \in 1..Len(children) :
      LET line == children[p]
          text == textContent(line)
      IN  (/\ line.kind = "div"
           /\ ~line.dirty
           /\ text # <<>>
           /\ Len(doHighlight(text)) = 1
           /\ isFixedWidthBlock(doHighlight(text)[1]))
          => LET to == setCursorPos(children, AtEditor,
                                    Pos(indexOf(children, p), Len(text))).sel
             IN  /\ to.k = "leaf"
                 /\ to.p = p
                 /\ to.off = 0
                 /\ shouldSetCursor(line.kids[to.j])

\* setText has rendered a line that is one fixed-width block, with no mj-cursor
C6_BlockLineWithoutAnchor ==
    /\ last = Last("setText", "none")
    /\ \E p \in 1..Len(children) :
         /\ children[p].kind = "div"
         /\ Len(children[p].kids) = 1
         /\ isFixedWidthBlock(children[p].kids[1])

\* C7: at most one pending pass. The only idle callback that can be pending is
\* the one requested last: a cancelled request is not pending and never runs.
C7_AtMostOnePending == Cardinality(idle) <= 1 /\ idle \subseteq {id}

\* a pass is pending that was requested while an earlier request was pending
C7_RequestedAgain ==
    /\ idle = {id}
    /\ sinceArm < sinceFirst
    /\ last.op \in {"type", "deleteAll"}

\* C8: no data loss. A pass does not change what getText() returns.
C8_NoDataLoss == [][Fire => getText' = getText]_vars

\* a pass is pending and a text node directly under the editor is a changed line
C8_ChangedBareText ==
    /\ idle # {}
    /\ \E p \in 1..Len(children) : children[p].kind = "text" /\ children[p].dirty

\* C9: idempotence. After a pass, a second pass changes nothing in the tree:
\* the same nodes in the same order with the same subtrees.
C9_Idempotent ==
    last.op = "fire" => requestForUpdate(Dom(children, detached), sel).children = children

\* a pass has patched a line and given it an mj-cursor element
C9_AfterPatchingPass ==
    /\ last = Last("fire", "none")
    /\ \E p \in 1..Len(children) :
         /\ children[p].kind = "div"
         /\ children[p].kids # <<>>
         /\ shouldSetCursor(children[p].kids[Len(children[p].kids)])

\* C10: empty-line fast path. For every line without text, column 0 of the line
\* is the line's own node at offset 0, in both versions of the position mapping.
C10_EmptyLineFastPath ==
    \A p \in 1..Len(children) :
      (isElement(children[p]) /\ textContent(children[p]) = <<>>)
      => /\ setCursorPos(children, AtEditor, Pos(indexOf(children, p), 0))
              = [err |-> "none", sel |-> Sel("line", p, 0, 0)]
         /\ calculateNodePos(children, Pos(p - 1, 0)) = Sel("line", p, 0, 0)

\* setText or a pass has restored the caret on an empty line that is not the first
C10_CaretOnEmptyLine ==
    /\ last.op \in {"setText", "fire"}
    /\ last.err = "none"
    /\ sel.k = "line"
    /\ sel.p > 1
    /\ children[sel.p].kind = "div"
    /\ textContent(children[sel.p]) = <<>>

\* C11: a failed caret snapshot is not fatal. A pass that starts with no range
\* in the selection, or with the range outside every line, throws nothing,
\* patches every changed line in the editor, empties the Set, replaces the bare
\* <br> elements and leaves the selection alone.
C11_SnapshotFailureNonFatal ==
    [][Fire =>
         (getCursorPos(children, sel).tag # "pos"
          => /\ last'.err = "none"
             /\ changedLinesSize(Dom(children', detached')) = 0
             /\ \A p \in 1..Len(children) :
                  children[p].dirty =>
                    children'[p].kids = updateLine(textContent(children[p])).kids
             /\ \A p \in 1..Len(children') : ~isBareBr(children'[p])
             /\ sel' = sel)]_vars

\* a pass has thrown at the snapshot and a bare <br> is still in the editor
C11_ThrewBeforeNormalizing ==
    /\ last = Last("fire", "IndexSizeError")
    /\ sel = NoRange
    /\ \E p \in 1..Len(children) : isBareBr(children[p])

\* C12: a failed caret restore is swallowed. When the snapshot is a position,
\* setText and the pass end without an error, whatever the tree is at restore
\* time.
C12_RestoreFailureSwallowed ==
    [][(Fire \/ \E L \in LineArrays : SetText(join(L)))
       => (getCursorPos(children, sel).tag = "pos" => last'.err = "none")]_vars

\* a pass has thrown at the restore: the editor has no element child
C12_ThrewAtRestore ==
    /\ last = Last("fire", "TypeError")
    /\ editorChildren(children) = <<>>

\* C13: detached changed lines are skipped. A pass that runs while a member of
\* the Set is outside the editor leaves that node alone (it is not patched and
\* not put back), and patches every member that is still a child of the editor.
C13_DetachedSkipped ==
    [][(Fire /\ detached > 0)
       => /\ Len(children') = Len(children)
          /\ \A t \in LineTexts :
               LET line == [createLine(t) EXCEPT !.dirty = TRUE]
               IN  patchChangedLine(line, FALSE) = line
          /\ \A p \in 1..Len(children) :
               children[p].dirty =>
                 children'[p].kids = updateLine(textContent(children[p])).kids]_vars

\* a pass has run with a changed line outside the editor and one inside it,
\* and the one inside is still as the host left it
C13_AttachedLeftUnpatched ==
    /\ last.op = "fire"
    /\ detached > 0
    /\ \E p \in 1..Len(children) :
         /\ children[p].dirty
         /\ children[p].kids # updateLine(textContent(children[p])).kids

\* C14: the redirect to the anchor is for the end of the block only. For a line
\* whose block leaf is followed by an mj-cursor element, a column before the
\* end of that leaf resolves to the leaf's text node at the column less the
\* text before the leaf, in both versions of the position mapping.
C14_RedirectOnlyAtEnd ==
    \A p \in 1..Len(children) :
      \A j \in 1..(IF children[p].kind = "div" THEN Len(children[p].kids) - 1 ELSE 0) :
        LET line == children[p]
            start == offsetBefore(line, j)
        IN  (/\ hasTextNode(line.kids[j])
             /\ isFixedWidthBlock(line.kids[j])
             /\ shouldSetCursor(line.kids[j + 1]))
            => \A column \in start..(start + Len(line.kids[j].text) - 1) :
                 (column > start \/ j = 1)
                 => /\ setCursorPos(children, AtEditor,
                                    Pos(indexOf(children, p), column)).sel
                         = Sel("leaf", p, j, column - start)
                    /\ calculateNodePos(children, Pos(p - 1, column))
                         = Sel("leaf", p, j, column - start)

\* setText has kept a line with an mj-cursor element and restored the caret
\* into that element
C14_SetTextCaretAtAnchor ==
    /\ last = Last("setText", "none")
    /\ sel.k = "leaf"
    /\ shouldSetCursor(children[sel.p].kids[sel.j])

\* C15: column overflow. For a line with text, a column greater than the length
\* of the text resolves to the end of the last leaf that holds text (or to the
\* mj-cursor element after it): a point of the line, never a failure.
C15_ColumnOverflow ==
    \A p \in 1..Len(children) :
      LET line == children[p]
          column == Len(textContent(line)) + 1
          leaves == {j \in 1..(IF line.kind = "div" THEN Len(line.kids) ELSE 0) :
                       hasTextNode(line.kids[j])}
      IN  leaves # {}
          => LET j == Max(leaves)
                 end == {Sel("leaf", p, j, Len(line.kids[j].text)),
                         Sel("leaf", p, j + 1, 0)}
             IN  /\ setCursorPos(children, AtEditor,
                                 Pos(indexOf(children, p), column)).sel \in end
                 /\ calculateNodePos(children, Pos(p - 1, column)) \in end

\* setText has rendered a line with text, and a column past its end resolves to
\* no point of the line: the range stays at the document, #calculateNodePos
\* returns null
C15_OverflowResolvesNowhere ==
    /\ last = Last("setText", "none")
    /\ \E p \in 1..Len(children) :
         LET column == Len(textContent(children[p])) + 1
         IN  /\ children[p].kind = "div"
             /\ column > 1
             /\ setCursorPos(children, AtEditor,
                             Pos(indexOf(children, p), column)).sel = AtDocument
             /\ calculateNodePos(children, Pos(p - 1, column)) = NoNodePos

\* C16: every pass empties the Set of changed lines. When a pass has run, the
\* Set has no member, in the editor or outside it.
C16_PassEmptiesDirtySet ==
    [][Fire => /\ \A p \in 1..Len(children') : ~children'[p].dirty
               /\ detached' = 0]_vars

\* a pass has run and a node outside the editor is still a member of the Set
C16_DetachedStillChanged ==
    /\ last.op = "fire"
    /\ detached > 0

\* C17: whenever the Set of changed lines has a member, a pass is pending.
C17_DirtyImpliesPending ==
    changedLinesSize(Dom(children, detached)) > 0 => idle # {}

\* the Set has a member, no pass is pending, and the user has moved the caret
\* since the pass that left it so
C17_ChangedAndNothingPending ==
    /\ changedLinesSize(Dom(children, detached)) > 0
    /\ idle = {}
    /\ last.op = "select"
    /\ sel.k \in {"line", "leaf"}

\* the host runs the pending idle callback: the steps of Next that empty the
\* host's list are the steps of Fire, and Fire is enabled when the list is not
\* empty
CallbackRuns == idle # {} /\ idle' = {}

\* the editor under a fair host: an idle callback that stays pending is run
\* (requestIdleCallback with a timeout runs it at the latest when the timeout
\* has passed)
SpecLive == Init /\ [][Next]_vars /\ WF_idle(CallbackRuns)

\* an edit notification arrives
EditNotification ==
    \/ \E c \in Typed : HostType(c)
    \/ \E atEditor \in BOOLEAN, leaveBr \in BOOLEAN : HostDeleteAll(atEditor, leaveBr)

\* C18: liveness. If edit notifications stop arriving, then a pending pass is
\* run and the Set of changed lines becomes empty.
C18_Liveness ==
    <>[][~EditNotification]_vars
    => /\ (idle # {}) ~> (idle = {})
       /\ (changedLinesSize(Dom(children, detached)) > 0)
            ~> (changedLinesSize(Dom(children, detached)) = 0)

\* no pass is pending, the Set has a member, and the selection has no range:
\* without a further edit nothing will run
C18_StuckWithChangedLines ==
    /\ idle = {}
    /\ changedLinesSize(Dom(children, detached)) > 0
    /\ sel = NoRange
    /\ last.op = "fire"

\* C19: setText bypasses the dirty tracker. A setText call leaves the Set of
\* changed lines with the members it had and the pending idle callback as it
\* was, and renders the text it was given; the pass that runs after it leaves
\* getText() returning that text.
C19_SetTextBypassesTracker ==
    [][/\ \A L \in LineArrays :
            (SetText(join(L)) /\ last'.err = "none")
            => /\ idle' = idle
               /\ id' = id
               /\ changedLinesSize(Dom(children', detached'))
                    = changedLinesSize(Dom(children, detached))
               /\ getText' = join(L)
       /\ (Fire /\ last = Last("setText", "none")) => getText' = getText]_vars

\* setText has run while a pass was pending for a changed text node directly
\* under the editor
C19_SetTextBeforePendingPass ==
    /\ last = Last("setText", "none")
    /\ idle # {}
    /\ \E p \in 1..Len(children) : children[p].kind = "text" /\ children[p].dirty

\* C20: the frame of #updateText. For every text, the lines it leaves are the
\* lines of the text; at each index the node that was there stays, the same
\* node with its subtree, when its text is the text wanted there, and every
\* other line is a node newly made by createLine; the lines past the last
\* index are removed.
C20_ReplaceAllFrame ==
    \A L \in LineArrays :
      LET textLines == split(join(L))
          dom == updateText(Dom(children, detached), join(L))
          old == editorChildren(children)
          new == editorChildren(dom.children)
      IN  /\ Len(new) = Len(textLines)
          /\ \A i \in 1..Len(textLines) :
               IF i <= Len(old) /\ textContent(old[i]) = textLines[i]
               THEN new[i] = old[i]
               ELSE new[i] = createLine(textLines[i])

\* setText has run on two lines and kept a line that is in the Set of changed
\* lines: a node it had replaced would not be in the Set
C20_SetTextKeptChangedLine ==
    /\ last = Last("setText", "none")
    /\ Len(editorChildren(children)) = 2
    /\ \E p \in 1..Len(children) : children[p].kind = "div" /\ children[p].dirty

\* C21: placeholder normalization. A pass that completes leaves no <br> as a
\* child of the editor: each one there was is replaced, at its place, by a new
\* empty line from createLine(''), and the other child nodes are as many as
\* before, in the same order, each with the text it had.
C21_PlaceholdersNormalized ==
    [][(Fire /\ last'.err = "none")
       => LET done == requestForUpdate(Dom(children, detached), sel).children
          IN  /\ children' = aged(done)
              /\ Len(done) = Len(children)
              /\ \A p \in 1..Len(children) :
                   IF isBareBr(children[p])
                   THEN done[p] = createLine(<<>>)
                   ELSE /\ ~isBareBr(done[p])
                        /\ textContent(done[p]) = textContent(children[p])]_vars

\* a pass has completed after the user deleted everything: the <br> the host
\* left is now an empty line
C21_BrBecameEmptyLine ==
    /\ last = Last("fire", "none")
    /\ sel = AtEditor
    /\ children = <<Node("div", <<BR>>, FALSE, FALSE)>>

\* C22: Anchor Marker invariant. In every reachable state every line has at
\* most one span.mj-cursor, which is then the last child of the line and holds
\* no character, so that it adds nothing to the line's textContent nor to
\* getText().
C22_AnchorMarkerInvariant ==
    \A p \in 1..Len(children) :
        LET kids == children[p].kids
            anchors == {j \in 1..Len(kids) : shouldSetCursor(kids[j])}
        IN  /\ Cardinality(anchors) <= 1
            /\ \A j \in anchors :
                 /\ j = Len(kids)
                 /\ kids[j].text = <<>>
                 /\ textContent(children[p]) = concat(SubSeq(kids, 1, j - 1))

\* the user has typed with the caret in the span.mj-cursor of a header line,
\* and the pass has not run yet
C22_TypedIntoAnchor ==
    /\ last = Last("type", "none")
    /\ idle # {}
    /\ sel.k = "leaf"
    /\ shouldSetCursor(children[sel.p].kids[sel.j])
    /\ sel.off = 1

\* C24: toLogical result validity. Whenever #getCursorPos returns a position,
\* its line is the index of a line of the editor, 0 <= line <= lineCount - 1
\* (never -1), and its column lies between 0 and the length of that line's text.
C24_PositionValid ==
    LET pos == getCursorPos(children, sel)
        lines == editorChildren(children)
    IN  pos.tag = "pos" =>
          /\ 0 <= pos.line
          /\ pos.line <= Len(lines) - 1
          /\ 0 <= pos.column
          /\ pos.column <= Len(textContent(lines[pos.line + 1]))

\* the caret is in a text node the host left directly under the editor
C24_CaretInBareText ==
    /\ sel.k = "line"
    /\ children[sel.p].kind = "text"
    /\ getCursorPos(children, sel) = Pos(-1, sel.off)

\* C25: malformed edit notification. A beforeinput event that reports a number
\* of target ranges other than one is ignored: it adds nothing to the Set of
\* changed lines, requests no idle callback, and throws nothing.
C25_MalformedIgnored ==
    [][\A n \in RangeCounts :
         HostNotify(n) =>
           /\ changedLines(Dom(children', detached')) = changedLines(Dom(children, detached))
           /\ idle' = idle
           /\ id' = id
           /\ last'.err = "none"]_vars

\* a beforeinput event without target ranges has made the handler throw
C25_HandlerThrew == last = Last("notify", "TypeError")

\* C23: edit with no enclosing line. A beforeinput event whose range starts at
\* the editor itself leaves the Set of changed lines (nothing is added to it)
\* and the pending idle callback as they were; and every node added to the Set
\* is, when it is added, a child node of the editor, never the editor itself.
C23_NoEnclosingLine ==
    [][/\ (/\ sel = AtEditor
           /\ \/ \E c \in Typed : HostType(c)
              \/ \E c \in Typed : HostPaste(c)
              \/ \E leaveBr \in BOOLEAN : HostDeleteAll(TRUE, leaveBr))
          => /\ changedLinesSize(Dom(children', detached'))
                  = changedLinesSize(Dom(children, detached))
             /\ outer' = outer
             /\ idle' = idle
             /\ id' = id
       /\ outer' => outer]_vars

\* the user has typed inside the element the host made of pasted rich text,
\* and the editor itself is in the Set of changed lines
C23_EditorInChangedLines ==
    /\ outer
    /\ last = Last("type", "none")
    /\ sel.k = "leaf"
    /\ children[sel.p].kind = "span"

====
